---- MODULE Spec2Model ----
(***************************************************************************)
(* Model of specify_cli (src/src/specify_cli/__init__.py): the StepTracker *)
(* and the template pipeline init -> download_and_extract_template ->      *)
(* download_template_from_github, with the filesystem it acts on.          *)
(*                                                                         *)
(* A directory is a set of entries <<path, val>>: path is a sequence of    *)
(* names relative to the directory, val is "dir" or the content of a file. *)
(* Every network or filesystem call of the forward path may fail; the      *)
(* exception class it fails with is kept, because the handlers of the code *)
(* select on it.  The recursive deletes of the rollback (shutil.rmtree)    *)
(* and the exit of tempfile.TemporaryDirectory are taken to succeed.       *)
(***************************************************************************)
EXTENDS Naturals, Integers, Sequences, FiniteSets, TLC

\* Number of chunks response.iter_bytes delivers for the archive.
NumChunks == 2

\* Largest number of assets the release feed lists.
MaxAssets == 2

\* Largest number of calls made on a StepTracker.
MaxCalls == 3

----------------------------------------------------------------------------
\* Directory trees

NoDir == [exists |-> FALSE, tree |-> {}]

Dir(t) == [exists |-> TRUE, tree |-> t]

Paths(t) == {e[1] : e \in t}

\* list(path.iterdir()): the names of the top-level entries
iterdir(t) == {e[1][1] : e \in {x \in t : Len(x[1]) = 1}}

\* item.is_dir() for a top-level name
is_dir(t, name) == <<(<<name>>), "dir">> \in t

\* the entries below the top-level directory name, relative to it
Below(t, name) ==
    {<<Tail(e[1]), e[2]>> : e \in {x \in t : Len(x[1]) > 1 /\ x[1][1] = name}}

\* the top-level entry name with everything below it
Under(t, name) == {e \in t : e[1][1] = name}

\* the tree t placed as a directory called name
Nest(name, t) ==
    {<<(<<name>>), "dir">>} \cup {<<(<<name>>) \o e[1], e[2]>> : e \in t}

\* writing the entries es into t: an entry of the same path is replaced
Overlay(t, es) == {e \in t : e[1] \notin Paths(es)} \cup es

\* the first k members of a name list, as a set of entries
Prefix(namelist, k) == {namelist[i] : i \in 1..k}

\* the files of a set of entries, with the directories leading to them
\* (dest_file.parent.mkdir(parents=True, exist_ok=True); shutil.copy2)
FilesWithParents(es) ==
    LET files == {e \in es : e[2] # "dir"}
    IN  files \cup
        UNION {{<<SubSeq(f[1], 1, n), "dir">> : n \in 1..(Len(f[1]) - 1)} : f \in files}

----------------------------------------------------------------------------
\* Inputs: archives (ZipFile.namelist order) and pre-existing directories

ArchWrapped ==
    << <<(<<"X">>), "dir">>, <<(<<"X", "a">>), "new">>, <<(<<"X", "b">>), "new">> >>

ArchFlat ==
    << <<(<<"a">>), "new">>, <<(<<"d">>), "dir">>, <<(<<"d", "f">>), "new">> >>

ArchSingleFile == << <<(<<"a">>), "new">> >>

Archives == {ArchWrapped, ArchFlat, ArchSingleFile}

ExistingTrees ==
    { {},
      {<<(<<"a">>), "old">>, <<(<<"c">>), "old">>},
      {<<(<<"d">>), "dir">>, <<(<<"d", "f">>), "old">>, <<(<<"d", "g">>), "old">>},
      {<<(<<"a">>), "dir">>, <<(<<"a", "k">>), "old">>, <<(<<"d">>), "old">>} }

SiblingTree == {<<(<<"c">>), "old">>}

\* what a directory holds that is already at the path of a new project
PriorTree == {<<(<<"p">>), "old">>}

----------------------------------------------------------------------------
\* StepTracker: steps is the list self.steps of {key, label, status, detail}

Keys(s) == {s[i].key : i \in DOMAIN s}

Step(key, label, status, detail) ==
    [key |-> key, label |-> label, status |-> status, detail |-> detail]

\* add without the membership test
add_unchecked(s, key, label) == Append(s, Step(key, label, "pending", ""))

\* add that registers the step again when the key exists
add_resets(s, key, label) ==
    IF key \notin Keys(s) THEN Append(s, Step(key, label, "pending", ""))
    ELSE [i \in DOMAIN s |->
            IF s[i].key = key THEN Step(key, label, "pending", "") ELSE s[i]]

add(s, key, label) ==
    IF key \notin Keys(s) THEN Append(s, Step(key, label, "pending", "")) ELSE s

\* _update that leaves a step that is done or in error as it is
update_validated(s, key, status, detail) ==
    IF key \in Keys(s)
    THEN [i \in DOMAIN s |->
            IF s[i].key = key /\ s[i].status \notin {"done", "error"}
            THEN [s[i] EXCEPT !.status = status,
                              !.detail = IF detail # "" THEN detail ELSE @]
            ELSE s[i]]
    ELSE Append(s, Step(key, key, status, detail))

\* _update that moves the step of an existing key to the end
update_moves_last(s, key, status, detail) ==
    IF key \in Keys(s)
    THEN LET old == CHOOSE x \in {s[i] : i \in DOMAIN s} : x.key = key
         IN  Append(SelectSeq(s, LAMBDA x : x.key # key),
                    [old EXCEPT !.status = status,
                                !.detail = IF detail # "" THEN detail ELSE @])
    ELSE Append(s, Step(key, key, status, detail))

\* _update that writes the detail also when it is empty
update_overwrites_detail(s, key, status, detail) ==
    IF key \in Keys(s)
    THEN [i \in DOMAIN s |->
            IF s[i].key = key
            THEN [s[i] EXCEPT !.status = status, !.detail = detail]
            ELSE s[i]]
    ELSE Append(s, Step(key, key, status, detail))

\* _update that registers an unknown key as pending and stops there
update_registers_pending(s, key, status, detail) ==
    IF key \in Keys(s)
    THEN [i \in DOMAIN s |->
            IF s[i].key = key
            THEN [s[i] EXCEPT !.status = status,
                              !.detail = IF detail # "" THEN detail ELSE @]
            ELSE s[i]]
    ELSE Append(s, Step(key, key, "pending", ""))

update(s, key, status, detail) ==
    IF key \in Keys(s)
    THEN LET i == CHOOSE n \in DOMAIN s :
                      s[n].key = key /\ \A m \in 1..(n - 1) : s[m].key # key
         IN  [s EXCEPT ![i] = [@ EXCEPT !.status = status,
                                         !.detail = IF detail # "" THEN detail ELSE @]]
    ELSE Append(s, Step(key, key, status, detail))

start(s, key, detail) == update(s, key, "running", detail)

complete(s, key, detail) == update(s, key, "done", detail)

error(s, key, detail) == update(s, key, "error", detail)

skip(s, key, detail) == update(s, key, "skipped", detail)

\* the status of the step with this key, "absent" when there is none
StatusOf(s, key) ==
    IF key \in Keys(s) THEN (CHOOSE x \in {s[i] : i \in DOMAIN s} : x.key = key).status
    ELSE "absent"

----------------------------------------------------------------------------
\* Release assets.  An asset name is a sequence of pieces of text; the name
\* is their concatenation.

\* pattern in name
Contains(name, pattern) ==
    \E i \in 0..(Len(name) - Len(pattern)) :
        SubSeq(name, i + 1, i + Len(pattern)) = pattern

\* name.endswith(suffix)
EndsWith(name, suffix) ==
    /\ Len(name) >= Len(suffix)
    /\ SubSeq(name, Len(name) - Len(suffix) + 1, Len(name)) = suffix

\* pattern = f"spec-kit-template-{ai_assistant}"
Pattern(ai) == <<"spec-kit-template-", ai>>

\* the test of the list comprehension
Matches(name, ai) == Contains(name, Pattern(ai)) /\ EndsWith(name, <<".zip">>)

\* matching_assets with the last match first
matching_assets_reversed(assets, ai) ==
    LET m == SelectSeq(assets, LAMBDA name : Matches(name, ai))
    IN  [i \in 1..Len(m) |-> m[Len(m) + 1 - i]]

\* matching_assets: the assets that pass the test, in the order of the feed
matching_assets(assets, ai) == SelectSeq(assets, LAMBDA name : Matches(name, ai))

AssetNames ==
    { <<"spec-kit-template-", "claude", "-v1", ".zip">>,
      <<"spec-kit-template-", "claude", "-v2", ".zip">>,
      <<"spec-kit-template-", "gemini", "-v1", ".zip">>,
      <<"spec-kit-template-", "claude", "-v1", ".tar.gz">>,
      <<"checksums-", "spec-kit-template-", "gemini", ".zip", ".sha256">> }

\* the asset lists a release can carry
Feeds == UNION {[1..n -> AssetNames] : n \in 0..MaxAssets}

----------------------------------------------------------------------------
\* Exceptions: the class of the exception in flight, "none" when there is none

\* str(e): typer.Exit(1) prints as its exit code, the others as their message
Str(e) == IF e = "Exit" THEN "1" ELSE e

----------------------------------------------------------------------------
VARIABLES
    pc,             \* position of the single thread of control
    caller,         \* "init" (the init command) or "direct" (a call of
                    \* download_and_extract_template)
    is_current_dir, \* the placement mode: TRUE merges into the current directory
    has_tracker,    \* tracker is not None
    archive,        \* the name list of the archive the release serves
    ai_assistant,   \* the variant asked for
    existing,       \* history: the target directory as it was before the run
    beside,         \* history: the sibling directory <project name>_temp as it
                    \* was before the run
    feed,           \* the asset names of the release the feed answered with
    asset,          \* the name of the asset chosen, <<>> when none is
    cause,          \* history: what made the release request fail
    steps,          \* tracker.steps
    zip_path,       \* the archive file: whether it exists and the chunks written
    project_path,   \* the target directory
    temp_move_dir,  \* the sibling directory <project name>_temp
    temp_dir,       \* the tempfile.TemporaryDirectory of the merge mode
    source_dir,     \* merge mode: the top-level name flattening selected, or ""
    todo,           \* merge mode: the items of source_dir not yet copied
    exc,            \* the exception in flight
    result,         \* of download_and_extract_template: none, returned, raised
    init_result,    \* of init: none, returned, raised
    failed_stage,   \* history: the stage whose failure started the error path
    unlink_failed,  \* history: the archive could not be deleted in the finally
    created,        \* history: project_path.mkdir succeeded in this run
    temp_created,   \* history: this run created temp_move_dir
    trace,          \* history: the phases entered, in order
    refresh_cb,     \* tracker._refresh_cb: the observer attached, "none" for None
    notified,       \* history: the observer calls of the last tracker call,
                    \* each with the steps the observer saw
    last_call,      \* history: the last tracker call and how it ended
    before,         \* history: tracker.steps before the last tracker call
    plain,          \* history: the steps of a tracker without observer that
                    \* received the same calls
    latest,         \* history: the pairs <<key, status>> of the last status
                    \* call made on each key
    ncalls,         \* number of tracker calls made
    referenced,     \* history: the keys the tracker calls named, in the order
                    \* in which each was named first
    written,        \* history: the pairs <<key, detail>> of the last non-empty
                    \* detail a status call passed for each key
    script,         \* history: the states of the pipeline a first run went
                    \* through, without its tracker
    pos             \* the place in script a second run has reached, 0 during
                    \* the first run

inputs == <<caller, is_current_dir, has_tracker, archive, ai_assistant, existing,
            beside>>

resolved == <<feed, asset, cause>>

watch == <<refresh_cb, notified, last_call, before, plain, latest, ncalls,
           referenced, written, script, pos>>

fs == <<zip_path, project_path, temp_move_dir, temp_dir>>

merge == <<source_dir, todo>>

history == <<failed_stage, unlink_failed, created, temp_created, trace>>

vars == <<pc, inputs, resolved, steps, fs, merge, exc, result, init_result,
          history, watch>>

\* no tracker call was made and no observer is attached
NoCalls ==
    /\ refresh_cb = "none"
    /\ notified = <<>>
    /\ last_call = [op |-> "none", key |-> "", arg |-> "", outcome |-> "returned"]
    /\ before = <<>>
    /\ plain = <<>>
    /\ latest = {}
    /\ ncalls = 0
    /\ referenced = <<>>
    /\ written = {}
    /\ script = <<>>
    /\ pos = 0

Init ==
    /\ caller \in {"init", "direct"}
    /\ pc = IF caller = "init" THEN "init_start" ELSE "daet_start"
    /\ is_current_dir \in BOOLEAN
    /\ has_tracker \in BOOLEAN
    /\ caller = "init" => has_tracker
    /\ archive \in Archives
    /\ steps = <<>>
    /\ zip_path = [exists |-> FALSE, chunks |-> 0]
    /\ project_path \in
         IF is_current_dir THEN {Dir(t) : t \in ExistingTrees}
         ELSE {NoDir, Dir({}), Dir(PriorTree)}
    /\ existing = project_path
    /\ temp_move_dir \in IF is_current_dir THEN {NoDir} ELSE {NoDir, Dir(SiblingTree)}
    /\ beside = temp_move_dir
    /\ temp_dir = NoDir
    /\ source_dir = ""
    /\ todo = {}
    /\ exc = "none"
    /\ result = "none"
    /\ init_result = "none"
    /\ failed_stage = "none"
    /\ unlink_failed = FALSE
    /\ created = FALSE
    /\ temp_created = FALSE
    /\ trace = <<>>
    /\ ai_assistant \in {"claude", "gemini"}
    /\ feed = <<>>
    /\ asset = <<>>
    /\ cause = "none"
    /\ NoCalls

\* with a tracker the steps become s, without one nothing is recorded
Tracked(s) == steps' = IF has_tracker THEN s ELSE steps

\* an exception leaves download_and_extract_template
Propagate == IF caller = "init" THEN "init_except" ELSE "done"

----------------------------------------------------------------------------
\* init, up to the call of download_and_extract_template

InitSteps ==
    LET s1 == complete(add(<<>>, "precheck", "init precheck"), "precheck", "OK")
        s2 == complete(add(s1, "ai-select", "init ai-select"), "ai-select", "ai")
        s3 == add(s2, "fetch", "init fetch")
        s4 == add(s3, "download", "init download")
        s5 == add(s4, "extract", "init extract")
        s6 == add(s5, "zip-list", "init zip-list")
        s7 == add(s6, "extracted-summary", "init extracted-summary")
        s8 == add(s7, "cleanup", "init cleanup")
        s9 == add(s8, "git", "init git")
    IN  add(s9, "final", "init final")

\* init: the directory check, then the tracker with its pre-registered steps
InitStart ==
    /\ pc = "init_start"
    /\ IF ~is_current_dir /\ project_path.exists
       THEN /\ pc' = "done"
            /\ init_result' = "raised"
            /\ exc' = "Exit"
            /\ steps' = steps
       ELSE /\ pc' = "daet_start"
            /\ steps' = InitSteps
            /\ UNCHANGED <<init_result, exc>>
    /\ UNCHANGED <<inputs, resolved, watch, fs, merge, result, history>>

----------------------------------------------------------------------------
\* download_and_extract_template, first try block: fetch and download

\* FetchStart that creates the directory of a new project first
FetchStartCreatesTarget ==
    /\ pc = "daet_start"
    /\ Tracked(start(steps, "fetch", "contacting GitHub API"))
    /\ trace' = Append(trace, "resolve")
    /\ pc' = "resolve"
    /\ project_path' = IF ~is_current_dir /\ ~project_path.exists
                       THEN Dir({}) ELSE project_path
    /\ created' = (~is_current_dir /\ ~project_path.exists)
    /\ UNCHANGED <<inputs, resolved, watch, zip_path, temp_move_dir, temp_dir, merge,
                   exc, result, init_result, failed_stage, unlink_failed,
                   temp_created>>

\* tracker.start("fetch", ...) before the helper is called
FetchStart ==
    /\ pc = "daet_start"
    /\ Tracked(start(steps, "fetch", "contacting GitHub API"))
    /\ trace' = Append(trace, "resolve")
    /\ pc' = "resolve"
    /\ UNCHANGED <<inputs, resolved, watch, fs, merge, exc, result, init_result,
                   failed_stage, unlink_failed, created, temp_created>>

\* download_template_from_github: the release request and the asset choice.
\* httpx.RequestError and an empty match list are turned into typer.Exit(1);
\* the HTTPStatusError of raise_for_status and the error of response.json()
\* are no RequestError and leave the helper as they are.
Resolve ==
    /\ pc = "resolve"
    /\ \/ \E outcome \in {"RequestError", "HTTPStatusError", "JSONDecodeError"} :
            /\ pc' = "fetch_except"
            /\ exc' = IF outcome = "RequestError" THEN "Exit" ELSE outcome
            /\ cause' = outcome
            /\ failed_stage' = "resolve"
            /\ UNCHANGED <<feed, asset, trace>>
       \/ \E assets \in Feeds :
            LET matching == matching_assets(assets, ai_assistant)
            IN  /\ feed' = assets
                /\ IF matching = <<>>
                   THEN /\ pc' = "fetch_except"
                        /\ exc' = "Exit"
                        /\ cause' = "no_asset"
                        /\ failed_stage' = "resolve"
                        /\ UNCHANGED <<asset, trace>>
                   ELSE /\ asset' = matching[1]
                        /\ pc' = "download"
                        /\ trace' = Append(trace, "download")
                        /\ UNCHANGED <<exc, cause, failed_stage>>
    /\ UNCHANGED <<inputs, watch, steps, fs, merge, result, init_result,
                   unlink_failed, created, temp_created>>

\* httpx.stream, raise_for_status, open(zip_path, 'wb')
OpenStream ==
    /\ pc = "download"
    /\ \E outcome \in {"ok", "RequestError", "HTTPStatusError"} :
         /\ zip_path' = IF outcome = "ok" THEN [exists |-> TRUE, chunks |-> 0]
                        ELSE zip_path
         /\ pc' = CASE outcome = "ok" -> "download_chunks"
                    [] outcome = "RequestError" -> "download_except"
                    [] OTHER -> "fetch_except"
         /\ exc' = IF outcome = "ok" THEN exc ELSE outcome
         /\ failed_stage' = IF outcome = "ok" THEN failed_stage ELSE "download"
    /\ UNCHANGED <<inputs, resolved, watch, steps, project_path, temp_move_dir, temp_dir, merge,
                   result, init_result, unlink_failed, created, temp_created, trace>>

\* one round of the loop over response.iter_bytes: the chunk is written, or
\* the transport fails (a RequestError), or f.write fails (an OSError)
WriteChunk ==
    /\ pc = "download_chunks"
    /\ \E outcome \in {"ok", "RequestError", "OSError"} :
         /\ zip_path' = IF outcome = "ok"
                        THEN [zip_path EXCEPT !.chunks = @ + 1]
                        ELSE zip_path
         /\ pc' = CASE outcome = "ok" ->
                         IF zip_path.chunks + 1 = NumChunks
                         THEN "fetch_ok" ELSE "download_chunks"
                    [] outcome = "RequestError" -> "download_except"
                    [] OTHER -> "fetch_except"
         /\ exc' = IF outcome = "ok" THEN exc ELSE outcome
         /\ failed_stage' = IF outcome = "ok" THEN failed_stage ELSE "download"
    /\ UNCHANGED <<inputs, resolved, watch, steps, project_path, temp_move_dir, temp_dir, merge,
                   result, init_result, unlink_failed, created, temp_created, trace>>

\* except httpx.RequestError of the download: delete the file, typer.Exit(1)
DownloadExcept ==
    /\ pc = "download_except"
    /\ IF zip_path.exists
       THEN \E ok \in BOOLEAN :
              /\ zip_path' = IF ok THEN [exists |-> FALSE, chunks |-> 0] ELSE zip_path
              /\ exc' = IF ok THEN "Exit" ELSE "OSError"
              /\ unlink_failed' = (unlink_failed \/ ~ok)
       ELSE /\ exc' = "Exit"
            /\ UNCHANGED <<zip_path, unlink_failed>>
    /\ pc' = "fetch_except"
    /\ UNCHANGED <<inputs, resolved, watch, steps, project_path, temp_move_dir, temp_dir, merge,
                   result, init_result, failed_stage, created, temp_created, trace>>

\* the helper returned: fetch and download are completed together
FetchOk ==
    /\ pc = "fetch_ok"
    /\ Tracked(complete(add(complete(steps, "fetch", "release"),
                            "download", "Download template"),
                        "download", "filename"))
    /\ pc' = "extract_start"
    /\ UNCHANGED <<inputs, resolved, watch, fs, merge, exc, result, init_result, history>>

\* FetchExcept with the failure recorded against the download step
FetchExceptMarksDownload ==
    /\ pc = "fetch_except"
    /\ Tracked(error(steps, "download", Str(exc)))
    /\ result' = "raised"
    /\ pc' = Propagate
    /\ UNCHANGED <<inputs, resolved, watch, fs, merge, exc, init_result, history>>

\* except Exception of the first try block: mark fetch, re-raise
FetchExcept ==
    /\ pc = "fetch_except"
    /\ Tracked(error(steps, "fetch", Str(exc)))
    /\ result' = "raised"
    /\ pc' = Propagate
    /\ UNCHANGED <<inputs, resolved, watch, fs, merge, exc, init_result, history>>

----------------------------------------------------------------------------
\* download_and_extract_template, second try block: extract and place

\* an operation of the try block raises e at the given stage
Raise(e, stage, at) ==
    /\ exc' = e
    /\ failed_stage' = stage
    /\ pc' = at

ExtractStart ==
    /\ pc = "extract_start"
    /\ Tracked(start(add(steps, "extract", "Extract template"), "extract", ""))
    /\ trace' = Append(trace, "materialize")
    /\ pc' = "mkdir"
    /\ UNCHANGED <<inputs, resolved, watch, fs, merge, exc, result, init_result,
                   failed_stage, unlink_failed, created, temp_created>>

\* if not is_current_dir: project_path.mkdir(parents=True)
Mkdir ==
    /\ pc = "mkdir"
    /\ IF is_current_dir
       THEN /\ pc' = "open_zip"
            /\ UNCHANGED <<project_path, created, exc, failed_stage>>
       ELSE IF project_path.exists
       THEN /\ Raise("FileExistsError", "materialize", "extract_except")
            /\ UNCHANGED <<project_path, created>>
       ELSE \E ok \in BOOLEAN :
              IF ok
              THEN /\ project_path' = Dir({})
                   /\ created' = TRUE
                   /\ pc' = "open_zip"
                   /\ UNCHANGED <<exc, failed_stage>>
              ELSE /\ Raise("OSError", "materialize", "extract_except")
                   /\ UNCHANGED <<project_path, created>>
    /\ UNCHANGED <<inputs, resolved, watch, steps, zip_path, temp_move_dir, temp_dir, merge,
                   result, init_result, unlink_failed, temp_created, trace>>

\* zipfile.ZipFile(zip_path), namelist, the zip-list step
OpenZip ==
    /\ pc = "open_zip"
    /\ \E ok \in BOOLEAN :
         IF ok
         THEN /\ Tracked(complete(start(steps, "zip-list", ""), "zip-list", "entries"))
              /\ pc' = IF is_current_dir THEN "extract_temp" ELSE "extractall"
              /\ UNCHANGED <<exc, failed_stage>>
         ELSE /\ Raise("BadZipFile", "extract", "extract_except")
              /\ steps' = steps
    /\ UNCHANGED <<inputs, resolved, watch, fs, merge, result, init_result,
                   unlink_failed, created, temp_created, trace>>

\* the single top-level directory of a tree, "" when flattening does not apply
\* (len(extracted_items) == 1 and extracted_items[0].is_dir())
SingleRoot(t) ==
    IF Cardinality(iterdir(t)) = 1 /\ is_dir(t, CHOOSE n \in iterdir(t) : TRUE)
    THEN CHOOSE n \in iterdir(t) : TRUE
    ELSE ""

\* new directory: zip_ref.extractall(project_path), the extracted-summary step.
\* A failure leaves the members extracted so far.
ExtractAll ==
    /\ pc = "extractall"
    /\ \E k \in 0..Len(archive) :
         /\ project_path' = Dir(Overlay(project_path.tree, Prefix(archive, k)))
         /\ IF k = Len(archive)
            THEN /\ Tracked(complete(start(steps, "extracted-summary", ""),
                                     "extracted-summary", "top-level items"))
                 /\ pc' = IF SingleRoot(project_path'.tree) # ""
                          THEN "move1" ELSE "extract_else"
                 /\ UNCHANGED <<exc, failed_stage>>
            ELSE /\ Raise("OSError", "extract", "extract_except")
                 /\ steps' = steps
    /\ UNCHANGED <<inputs, resolved, watch, zip_path, temp_move_dir, temp_dir, merge, result,
                   init_result, unlink_failed, created, temp_created, trace>>

\* shutil.move(nested_dir, temp_move_dir): a rename, or, when temp_move_dir is
\* an existing directory, a move into it (an error if the name is taken there)
Move1 ==
    /\ pc = "move1"
    /\ LET nested == SingleRoot(project_path.tree)
           taken == temp_move_dir.exists /\ nested \in iterdir(temp_move_dir.tree)
       IN  \E ok \in BOOLEAN :
             IF ok /\ ~taken
             THEN /\ temp_move_dir' =
                       IF temp_move_dir.exists
                       THEN Dir(temp_move_dir.tree \cup
                                Nest(nested, Below(project_path.tree, nested)))
                       ELSE Dir(Below(project_path.tree, nested))
                  /\ temp_created' = (temp_created \/ ~temp_move_dir.exists)
                  /\ project_path' = Dir({})
                  /\ pc' = "rmdir"
                  /\ UNCHANGED <<exc, failed_stage>>
             ELSE /\ Raise(IF taken THEN "Error" ELSE "OSError",
                           "materialize", "extract_except")
                  /\ UNCHANGED <<temp_move_dir, temp_created, project_path>>
    /\ UNCHANGED <<inputs, resolved, watch, steps, zip_path, temp_dir, merge, result,
                   init_result, unlink_failed, created, trace>>

\* project_path.rmdir()
Rmdir ==
    /\ pc = "rmdir"
    /\ \E ok \in BOOLEAN :
         IF ok /\ project_path.tree = {}
         THEN /\ project_path' = NoDir
              /\ pc' = "move2"
              /\ UNCHANGED <<exc, failed_stage>>
         ELSE /\ Raise("OSError", "materialize", "extract_except")
              /\ project_path' = project_path
    /\ UNCHANGED <<inputs, resolved, watch, steps, zip_path, temp_move_dir, temp_dir, merge, result,
                   init_result, unlink_failed, created, temp_created, trace>>

\* shutil.move(temp_move_dir, project_path), then the flatten step
Move2 ==
    /\ pc = "move2"
    /\ \E ok \in BOOLEAN :
         IF ok
         THEN /\ project_path' = Dir(temp_move_dir.tree)
              /\ temp_move_dir' = NoDir
              /\ Tracked(complete(add(steps, "flatten", "Flatten nested directory"),
                                  "flatten", ""))
              /\ pc' = "extract_else"
              /\ UNCHANGED <<exc, failed_stage>>
         ELSE /\ Raise("OSError", "materialize", "extract_except")
              /\ UNCHANGED <<project_path, temp_move_dir, steps>>
    /\ UNCHANGED <<inputs, resolved, watch, zip_path, temp_dir, merge, result,
                   init_result, unlink_failed, created, temp_created, trace>>

\* current directory: TemporaryDirectory, zip_ref.extractall(temp_path), the
\* extracted-summary step and the choice of source_dir
ExtractTemp ==
    /\ pc = "extract_temp"
    /\ \E k \in 0..Len(archive) :
         /\ temp_dir' = Dir(Prefix(archive, k))
         /\ IF k = Len(archive)
            THEN LET root == SingleRoot(temp_dir'.tree)
                     s1 == complete(start(steps, "extracted-summary", ""),
                                    "extracted-summary", "temp items")
                 IN  /\ source_dir' = root
                     /\ todo' = IF root # "" THEN iterdir(Below(temp_dir'.tree, root))
                                ELSE iterdir(temp_dir'.tree)
                     /\ Tracked(IF root # ""
                                THEN complete(add(s1, "flatten", "Flatten nested directory"),
                                              "flatten", "")
                                ELSE s1)
                     /\ pc' = IF todo' = {} THEN "temp_exit" ELSE "merge"
                     /\ UNCHANGED <<exc, failed_stage>>
            ELSE /\ Raise("OSError", "extract", "temp_exit")
                 /\ UNCHANGED <<steps, merge>>
    /\ UNCHANGED <<inputs, resolved, watch, zip_path, project_path, temp_move_dir, result,
                   init_result, unlink_failed, created, temp_created, trace>>

\* source_dir as a tree
SourceTree == IF source_dir = "" THEN temp_dir.tree ELSE Below(temp_dir.tree, source_dir)

\* where a file copied to path p of tree t lands: shutil.copy2 onto an existing
\* directory writes inside it, under the name of the file
Target(t, p) == IF <<p, "dir">> \in t THEN Append(p, p[Len(p)]) ELSE p

\* what copying the item of source_dir writes below project_path: a directory
\* that exists at the destination receives the files of the item (rglob,
\* mkdir of the parents, copy2); one that does not is copied whole (copytree);
\* a file is copied (copy2)
Copied(item) ==
    LET t == project_path.tree
        es == IF is_dir(SourceTree, item) /\ <<item>> \in Paths(t)
              THEN Nest(item, FilesWithParents(Below(SourceTree, item)))
              ELSE Under(SourceTree, item)
    IN  {IF e[2] = "dir" THEN e ELSE <<Target(t, e[1]), e[2]>> : e \in es}

\* the entries of Copied(item) the destination refuses: a directory where a
\* file is (mkdir raises FileExistsError), a file below a file
\* (NotADirectoryError), a file where a directory is (IsADirectoryError)
Refused(item) ==
    LET t == project_path.tree
        isfile(p) == p \in Paths(t) /\ <<p, "dir">> \notin t
    IN  {e \in Copied(item) :
            \/ e[2] = "dir" /\ isfile(e[1])
            \/ e[2] # "dir" /\ <<e[1], "dir">> \in t
            \/ \E n \in 1..(Len(e[1]) - 1) : isfile(SubSeq(e[1], 1, n))}

\* a set of entries in which every entry has its parent directory
ParentClosed(es) ==
    \A e \in es : Len(e[1]) > 1 =>
        <<SubSeq(e[1], 1, Len(e[1]) - 1), "dir">> \in es

\* one round of the loop over source_dir.iterdir(): the item is copied, or the
\* copy fails after part of it was written
MergeItem ==
    /\ pc = "merge"
    /\ \E item \in todo :
         \E part \in SUBSET (Copied(item) \ Refused(item)) :
           /\ ParentClosed(Overlay(project_path.tree, part))
           /\ project_path' = Dir(Overlay(project_path.tree, part))
           /\ IF part = Copied(item)
              THEN /\ todo' = todo \ {item}
                   /\ pc' = IF todo' = {} THEN "temp_exit" ELSE "merge"
                   /\ UNCHANGED <<exc, failed_stage, source_dir>>
              ELSE /\ Raise("OSError", "materialize", "temp_exit")
                   /\ UNCHANGED merge
    /\ UNCHANGED <<inputs, resolved, watch, steps, zip_path, temp_move_dir, temp_dir, result,
                   init_result, unlink_failed, created, temp_created, trace>>

\* the with blocks are left: the temporary directory is removed
TempExit ==
    /\ pc = "temp_exit"
    /\ temp_dir' = NoDir
    /\ pc' = IF exc = "none" THEN "extract_else" ELSE "extract_except"
    /\ UNCHANGED <<inputs, resolved, watch, steps, zip_path, project_path, temp_move_dir, merge,
                   exc, result, init_result, history>>

\* ExtractExcept without the removal of the project directory
ExtractExceptNoRollback ==
    /\ pc = "extract_except"
    /\ Tracked(error(steps, "extract", Str(exc)))
    /\ exc' = "Exit"
    /\ pc' = "finally"
    /\ UNCHANGED <<inputs, resolved, watch, fs, merge, result, init_result, history>>

\* ExtractExcept without the raise: the exception is dropped
ExtractExceptSwallows ==
    /\ pc = "extract_except"
    /\ Tracked(error(steps, "extract", Str(exc)))
    /\ project_path' = IF ~is_current_dir /\ project_path.exists
                       THEN NoDir ELSE project_path
    /\ exc' = "none"
    /\ pc' = "finally"
    /\ UNCHANGED <<inputs, resolved, watch, zip_path, temp_move_dir, temp_dir, merge,
                   result, init_result, history>>

\* ExtractExcept that removes the project directory only when it has a tracker
ExtractExceptRollbackIfTracked ==
    /\ pc = "extract_except"
    /\ Tracked(error(steps, "extract", Str(exc)))
    /\ project_path' = IF has_tracker /\ ~is_current_dir /\ project_path.exists
                       THEN NoDir ELSE project_path
    /\ exc' = "Exit"
    /\ pc' = "finally"
    /\ UNCHANGED <<inputs, resolved, watch, zip_path, temp_move_dir, temp_dir, merge,
                   result, init_result, history>>

\* ExtractExcept without the tracker.error call
ExtractExceptNoMark ==
    /\ pc = "extract_except"
    /\ project_path' = IF ~is_current_dir /\ project_path.exists
                       THEN NoDir ELSE project_path
    /\ exc' = "Exit"
    /\ pc' = "finally"
    /\ UNCHANGED <<inputs, resolved, watch, steps, zip_path, temp_move_dir, temp_dir,
                   merge, result, init_result, history>>

\* except Exception of the second try block: mark extract, remove the project
\* directory of a new project, typer.Exit(1)
ExtractExcept ==
    /\ pc = "extract_except"
    /\ Tracked(error(steps, "extract", Str(exc)))
    /\ project_path' = IF ~is_current_dir /\ project_path.exists
                       THEN NoDir ELSE project_path
    /\ exc' = "Exit"
    /\ pc' = "finally"
    /\ UNCHANGED <<inputs, resolved, watch, zip_path, temp_move_dir, temp_dir, merge,
                   result, init_result, history>>

\* else of the second try block
ExtractElse ==
    /\ pc = "extract_else"
    /\ Tracked(complete(steps, "extract", ""))
    /\ pc' = "finally"
    /\ UNCHANGED <<inputs, resolved, watch, fs, merge, exc, result, init_result, history>>

\* finally of the second try block, then return project_path or the raise:
\* the cleanup step is added, the archive deleted; a failing unlink raises
Finally ==
    /\ pc = "finally"
    /\ trace' = Append(trace, "cleanup")
    /\ LET s1 == add(steps, "cleanup", "Remove temporary archive")
       IN  \E ok \in BOOLEAN :
             /\ zip_path' = IF zip_path.exists /\ ok
                            THEN [exists |-> FALSE, chunks |-> 0] ELSE zip_path
             /\ Tracked(IF zip_path.exists /\ ok THEN complete(s1, "cleanup", "") ELSE s1)
             /\ ok \/ zip_path.exists
             /\ unlink_failed' = (unlink_failed \/ ~ok)
             /\ exc' = IF ok THEN exc ELSE "OSError"
             /\ result' = IF exc' = "none" THEN "returned" ELSE "raised"
             /\ pc' = IF exc' # "none" THEN Propagate
                      ELSE IF caller = "init" THEN "git" ELSE "done"
    /\ UNCHANGED <<inputs, resolved, watch, project_path, temp_move_dir, temp_dir, merge,
                   init_result, failed_stage, created, temp_created>>

----------------------------------------------------------------------------
\* init, after the call

\* the git step and the final step
Git ==
    /\ pc = "git"
    /\ \E outcome \in {"no_git", "is_repo", "initialized", "init_failed", "unavailable"} :
         LET s1 == CASE outcome = "no_git" -> skip(steps, "git", "--no-git")
                     [] outcome = "is_repo" ->
                          complete(start(steps, "git", ""), "git", "existing repo")
                     [] outcome = "initialized" ->
                          complete(start(steps, "git", ""), "git", "initialized")
                     [] outcome = "init_failed" ->
                          error(start(steps, "git", ""), "git", "init failed")
                     [] OTHER -> skip(start(steps, "git", ""), "git", "git unavailable")
         IN  steps' = complete(s1, "final", "project ready")
    /\ init_result' = "returned"
    /\ pc' = "done"
    /\ UNCHANGED <<inputs, resolved, watch, fs, merge, exc, result, history>>

\* InitExcept removing the project directory in either placement mode
InitExceptRemovesAlways ==
    /\ pc = "init_except"
    /\ steps' = error(steps, "final", Str(exc))
    /\ project_path' = NoDir
    /\ exc' = "Exit"
    /\ init_result' = "raised"
    /\ pc' = "done"
    /\ UNCHANGED <<inputs, resolved, watch, zip_path, temp_move_dir, temp_dir, merge, result, history>>

\* except Exception of init: mark final, remove the project directory of a
\* new project, typer.Exit(1)
InitExcept ==
    /\ pc = "init_except"
    /\ steps' = error(steps, "final", Str(exc))
    /\ project_path' = IF ~is_current_dir /\ project_path.exists
                       THEN NoDir ELSE project_path
    /\ exc' = "Exit"
    /\ init_result' = "raised"
    /\ pc' = "done"
    /\ UNCHANGED <<inputs, resolved, watch, zip_path, temp_move_dir, temp_dir, merge, result, history>>

----------------------------------------------------------------------------
Next ==
    \/ InitStart
    \/ FetchStart
    \/ Resolve
    \/ OpenStream
    \/ WriteChunk
    \/ DownloadExcept
    \/ FetchOk
    \/ FetchExcept
    \/ ExtractStart
    \/ Mkdir
    \/ OpenZip
    \/ ExtractAll
    \/ Move1
    \/ Rmdir
    \/ Move2
    \/ ExtractTemp
    \/ MergeItem
    \/ TempExit
    \/ ExtractExcept
    \/ ExtractElse
    \/ Finally
    \/ Git
    \/ InitExcept

Spec == Init /\ [][Next]_vars

-----------------------------------------------------------------------------
\* StepTracker under arbitrary calls

\* str.strip() on the details the calls are made with
strip(detail) == IF detail = " " THEN "" ELSE detail

\* the symbol render shows for a status
Symbol(status) ==
    CASE status = "done" -> "[green]filled"
      [] status = "pending" -> "[green dim]hollow"
      [] status = "running" -> "[cyan]hollow"
      [] status = "error" -> "[red]filled"
      [] status = "skipped" -> "[yellow]hollow"
      [] OTHER -> " "

\* render: one line per step, in the order of self.steps; the line of a pending
\* step is grey as a whole
render(s) ==
    [i \in DOMAIN s |->
        [symbol |-> Symbol(s[i].status),
         label |-> s[i].label,
         detail_text |-> IF s[i].detail # "" THEN strip(s[i].detail) ELSE "",
         grey |-> s[i].status = "pending"]]

\* the keys of the steps, in the order of the steps
KeySeq(s) == [i \in DOMAIN s |-> s[i].key]

\* the keys, labels and details the calls are made with
TrackerKeys == {"k1", "k2"}

Labels == {"L1", "L2"}

Details == {"", "d1", " "}

\* the observers: one that returns, one that raises an Exception every time
Observers == {"cb_returns", "cb_raises"}

Raises(cb) == cb = "cb_raises"

\* the status each operation passes to _update
StatusFor(op) ==
    CASE op = "start" -> "running"
      [] op = "complete" -> "done"
      [] op = "error" -> "error"
      [] op = "skip" -> "skipped"

StatusOps == {"start", "complete", "error", "skip"}

\* _maybe_refresh without the try/except
maybe_refresh_unguarded(cb, s) ==
    IF cb = "none"
    THEN [seen |-> <<>>, outcome |-> "returned"]
    ELSE [seen |-> <<[cb |-> cb, steps |-> s]>>,
          outcome |-> IF Raises(cb) THEN "raised" ELSE "returned"]

\* _maybe_refresh when the steps are s: the observer calls made, each with the
\* steps the observer sees, and how _maybe_refresh ends (an Exception of the
\* observer is caught and dropped)
maybe_refresh(cb, s) ==
    IF cb = "none"
    THEN [seen |-> <<>>, outcome |-> "returned"]
    ELSE [seen |-> <<[cb |-> cb, steps |-> s]>>, outcome |-> "returned"]

\* a call that reaches _maybe_refresh whatever the steps are
refreshes_always(op, s, key) == TRUE

\* whether the call reaches _maybe_refresh: add only inside the branch of a new
\* key, _update on both of its paths
refreshes(op, s, key) == op # "add" \/ key \notin Keys(s)

\* what a call does after the steps were changed to s2
Called(op, key, arg, s2) ==
    LET r == IF refreshes(op, steps, key) THEN maybe_refresh(refresh_cb, s2)
             ELSE [seen |-> <<>>, outcome |-> "returned"]
    IN  /\ steps' = s2
        /\ before' = steps
        /\ notified' = r.seen
        /\ last_call' = [op |-> op, key |-> key, arg |-> arg, outcome |-> r.outcome]
        /\ ncalls' = ncalls + 1
        /\ referenced' = IF \E i \in DOMAIN referenced : referenced[i] = key
                         THEN referenced ELSE Append(referenced, key)

pipeline == <<pc, inputs, resolved, fs, merge, exc, result, init_result, history>>

TrackerInit ==
    /\ pc = "tracker"
    /\ caller = "direct"
    /\ is_current_dir = FALSE
    /\ has_tracker = TRUE
    /\ archive = ArchSingleFile
    /\ ai_assistant = "claude"
    /\ existing = NoDir
    /\ beside = NoDir
    /\ feed = <<>>
    /\ asset = <<>>
    /\ cause = "none"
    /\ steps = <<>>
    /\ zip_path = [exists |-> FALSE, chunks |-> 0]
    /\ project_path = NoDir
    /\ temp_move_dir = NoDir
    /\ temp_dir = NoDir
    /\ source_dir = ""
    /\ todo = {}
    /\ exc = "none"
    /\ result = "none"
    /\ init_result = "none"
    /\ failed_stage = "none"
    /\ unlink_failed = FALSE
    /\ created = FALSE
    /\ temp_created = FALSE
    /\ trace = <<>>
    /\ NoCalls

\* tracker.attach_refresh(cb)
AttachRefresh ==
    /\ pc = "tracker"
    /\ \E cb \in Observers :
         /\ cb # refresh_cb
         /\ refresh_cb' = cb
         /\ last_call' = [op |-> "attach_refresh", key |-> "", arg |-> cb,
                          outcome |-> "returned"]
    /\ before' = steps
    /\ notified' = <<>>
    /\ UNCHANGED <<pipeline, steps, plain, latest, ncalls, referenced, written,
                   script, pos>>

\* tracker.add(key, label)
TrackerAdd ==
    /\ pc = "tracker" /\ ncalls < MaxCalls
    /\ \E key \in TrackerKeys, label \in Labels :
         /\ Called("add", key, label, add(steps, key, label))
         /\ plain' = add(plain, key, label)
    /\ UNCHANGED <<pipeline, refresh_cb, latest, written, script, pos>>

\* tracker.start / complete / error / skip (key, detail)
StatusCall(op) ==
    /\ pc = "tracker" /\ ncalls < MaxCalls
    /\ \E key \in TrackerKeys, detail \in Details :
         /\ Called(op, key, detail, update(steps, key, StatusFor(op), detail))
         /\ plain' = update(plain, key, StatusFor(op), detail)
         /\ latest' = {x \in latest : x[1] # key} \cup {<<key, StatusFor(op)>>}
         /\ written' = IF detail # ""
                       THEN {x \in written : x[1] # key} \cup {<<key, detail>>}
                       ELSE written
    /\ UNCHANGED <<pipeline, refresh_cb, script, pos>>

TrackerStart == StatusCall("start")

TrackerComplete == StatusCall("complete")

TrackerError == StatusCall("error")

TrackerSkip == StatusCall("skip")

TrackerNext ==
    \/ AttachRefresh
    \/ TrackerAdd
    \/ TrackerStart
    \/ TrackerComplete
    \/ TrackerError
    \/ TrackerSkip

TrackerSpec == TrackerInit /\ [][TrackerNext]_vars

-----------------------------------------------------------------------------
\* download_and_extract_template run twice on the same inputs, once with a
\* tracker and once without: the second run has to go through the states the
\* first went through

\* the state of the pipeline without the tracker
Obs ==
    [pc |-> pc, feed |-> feed, asset |-> asset, cause |-> cause,
     zip_path |-> zip_path, project_path |-> project_path,
     temp_move_dir |-> temp_move_dir, temp_dir |-> temp_dir,
     source_dir |-> source_dir, todo |-> todo, exc |-> exc, result |-> result,
     failed_stage |-> failed_stage, unlink_failed |-> unlink_failed,
     created |-> created, temp_created |-> temp_created, trace |-> trace]

\* the states a tracker handed to download_and_extract_template may be in
TrackerStates ==
    { <<>>,
      <<Step("fetch", "Fetch", "error", "x")>>,
      <<Step("extract", "Extract", "done", ""),
        Step("cleanup", "Cleanup", "running", "")>> }

\* the steps of download_and_extract_template
Daet ==
    \/ FetchStart
    \/ Resolve
    \/ OpenStream
    \/ WriteChunk
    \/ DownloadExcept
    \/ FetchOk
    \/ FetchExcept
    \/ ExtractStart
    \/ Mkdir
    \/ OpenZip
    \/ ExtractAll
    \/ Move1
    \/ Rmdir
    \/ Move2
    \/ ExtractTemp
    \/ MergeItem
    \/ TempExit
    \/ ExtractExcept
    \/ ExtractElse
    \/ Finally

TwinInit ==
    /\ caller = "direct"
    /\ pc = "daet_start"
    /\ is_current_dir \in BOOLEAN
    /\ has_tracker \in BOOLEAN
    /\ archive \in Archives
    /\ steps \in IF has_tracker THEN TrackerStates ELSE {<<>>}
    /\ zip_path = [exists |-> FALSE, chunks |-> 0]
    /\ project_path \in
         IF is_current_dir THEN {Dir(t) : t \in ExistingTrees}
         ELSE {NoDir, Dir({}), Dir(PriorTree)}
    /\ existing = project_path
    /\ temp_move_dir \in IF is_current_dir THEN {NoDir} ELSE {NoDir, Dir(SiblingTree)}
    /\ beside = temp_move_dir
    /\ temp_dir = NoDir
    /\ source_dir = ""
    /\ todo = {}
    /\ exc = "none"
    /\ result = "none"
    /\ init_result = "none"
    /\ failed_stage = "none"
    /\ unlink_failed = FALSE
    /\ created = FALSE
    /\ temp_created = FALSE
    /\ trace = <<>>
    /\ ai_assistant = "claude"
    /\ feed = <<>>
    /\ asset = <<>>
    /\ cause = "none"
    /\ refresh_cb = "none"
    /\ notified = <<>>
    /\ last_call = [op |-> "none", key |-> "", arg |-> "", outcome |-> "returned"]
    /\ before = <<>>
    /\ plain = <<>>
    /\ latest = {}
    /\ ncalls = 0
    /\ referenced = <<>>
    /\ written = {}
    /\ script = <<Obs>>
    /\ pos = 0

calls == <<refresh_cb, notified, last_call, before, plain, latest, ncalls,
           referenced, written>>

\* the answers of the release feed the two runs are compared on: no asset, and
\* the asset of the variant
TwinFeeds == {<<>>, << <<"spec-kit-template-", "claude", "-v1", ".zip">> >>}

\* a step of the first run
TwinFirst ==
    /\ pos = 0
    /\ Obs = script[Len(script)]
    /\ Daet
    /\ feed' \in TwinFeeds

\* the state the first run has reached is written down
TwinRecord ==
    /\ pos = 0
    /\ Obs # script[Len(script)]
    /\ script' = Append(script, Obs)
    /\ UNCHANGED <<pipeline, steps, calls, pos>>

\* the first run has ended: the second starts from the same inputs, with a
\* tracker if the first had none and without one if it had
TwinRestart ==
    /\ pos = 0
    /\ pc = "done"
    /\ Obs = script[Len(script)]
    /\ pos' = 1
    /\ has_tracker' = ~has_tracker
    /\ steps' \in IF has_tracker THEN {<<>>} ELSE TrackerStates
    /\ pc' = script[1].pc
    /\ feed' = script[1].feed
    /\ asset' = script[1].asset
    /\ cause' = script[1].cause
    /\ zip_path' = script[1].zip_path
    /\ project_path' = script[1].project_path
    /\ temp_move_dir' = script[1].temp_move_dir
    /\ temp_dir' = script[1].temp_dir
    /\ source_dir' = script[1].source_dir
    /\ todo' = script[1].todo
    /\ exc' = script[1].exc
    /\ result' = script[1].result
    /\ failed_stage' = script[1].failed_stage
    /\ unlink_failed' = script[1].unlink_failed
    /\ created' = script[1].created
    /\ temp_created' = script[1].temp_created
    /\ trace' = script[1].trace
    /\ UNCHANGED <<caller, is_current_dir, archive, ai_assistant, existing, beside,
                   init_result, calls, script>>

\* a step of the second run: the calls of the network and the filesystem end
\* as they did in the first run
TwinFollow ==
    /\ pos > 0 /\ pos < Len(script)
    /\ Obs = script[pos]
    /\ Daet
    /\ Obs' = script[pos + 1]

\* the second run has reached the next state of the first
TwinAdvance ==
    /\ pos > 0 /\ pos < Len(script)
    /\ Obs = script[pos + 1]
    /\ pos' = pos + 1
    /\ UNCHANGED <<pipeline, steps, calls, script>>

TwinNext ==
    \/ TwinFirst
    \/ TwinRecord
    \/ TwinRestart
    \/ TwinFollow
    \/ TwinAdvance

TwinSpec == TwinInit /\ [][TwinNext]_vars

----------------------------------------------------------------------------
\* Properties

\* the indices of the steps with status error
ErrorSteps == {i \in DOMAIN steps : steps[i].status = "error"}

\* a failure of one of the stages resolve, download, extract, materialize
StageFailed == failed_stage \in {"resolve", "download", "extract", "materialize"}

\* C1: when a run of init ends in failure, the tracker holds exactly one error
\* step and every step after it is pending or skipped.
C1_SingleErrorStep ==
    (pc = "done" /\ caller = "init" /\ result = "raised" /\ init_result = "raised") =>
        /\ Cardinality(ErrorSteps) = 1
        /\ \A i \in ErrorSteps : \A j \in DOMAIN steps :
             j > i => steps[j].status \in {"pending", "skipped"}

\* C2: new directory: once the run has raised for a failure of extraction or
\* placement that came after the run created the target directory, the target
\* directory does not exist.
C2_RollbackOnFreshFailure ==
    (~is_current_dir /\ created /\ failed_stage \in {"extract", "materialize"}
       /\ result = "raised") => ~project_path.exists

C2_Witness ==
    /\ pc = "done" /\ ~is_current_dir /\ created /\ temp_created
    /\ failed_stage = "materialize" /\ result = "raised" /\ ~project_path.exists

\* C3: merge mode: once download_and_extract_template or init has raised, the
\* target directory that existed before the run still exists.
C3_NoRollbackOnMerge ==
    (is_current_dir /\ (result = "raised" \/ init_result = "raised")) =>
        project_path.exists

C3_Witness ==
    /\ pc = "done" /\ is_current_dir /\ caller = "init" /\ init_result = "raised"
    /\ failed_stage = "materialize" /\ project_path.exists

\* C4: after a successful run, and after a run that failed in any of the
\* stages, the archive file does not exist (a failed deletion set aside).
C4_ArchiveRemoved ==
    (pc = "done" /\ result # "none" /\ ~unlink_failed) => ~zip_path.exists

\* C5: when every stage succeeded and only the deletion of the archive failed,
\* the run returns the project and the target directory is present.
C5_CleanupFailureNonFatal ==
    (pc = "done" /\ failed_stage = "none" /\ unlink_failed) =>
        (result = "returned" /\ project_path.exists)

\* C6: when the run has ended, the temporary extraction directory and the
\* <target>_temp directory this run created do not exist.
C6_StagingRemoved ==
    pc = "done" =>
        (~temp_dir.exists /\ (temp_created => ~temp_move_dir.exists))

\* C7: when a download failure is reported, no archive file to which chunks
\* were written exists (a failed deletion set aside), and no stage after the
\* download reads an incomplete archive.
C7_NoPartialArchive ==
    /\ (result = "raised" /\ failed_stage = "download" /\ ~unlink_failed) =>
           ~(zip_path.exists /\ zip_path.chunks > 0)
    /\ pc \in {"open_zip", "extractall", "extract_temp"} =>
           (zip_path.exists /\ zip_path.chunks = NumChunks)

\* C8 as stated: the step marked error is the step of the stage that failed:
\* fetch for resolve, download for download, extract for extract/materialize.
C8_StepOfFailedStage ==
    (has_tracker /\ result = "raised") =>
        /\ failed_stage = "resolve" => StatusOf(steps, "fetch") = "error"
        /\ failed_stage = "download" => StatusOf(steps, "download") = "error"
        /\ failed_stage \in {"extract", "materialize"} =>
               StatusOf(steps, "extract") = "error"

\* C8 as amended: a resolve failure and a download failure both mark the fetch
\* step, and the download step is not marked error; an extract or materialize
\* failure marks the extract step, and fetch stays done.
C8_FetchCoversDownload ==
    (has_tracker /\ result = "raised") =>
        /\ failed_stage \in {"resolve", "download"} =>
               /\ StatusOf(steps, "fetch") = "error"
               /\ StatusOf(steps, "download") # "error"
               /\ StatusOf(steps, "extract") # "error"
        /\ failed_stage \in {"extract", "materialize"} =>
               /\ StatusOf(steps, "extract") = "error"
               /\ StatusOf(steps, "fetch") = "done"

C8_Witness ==
    /\ has_tracker /\ result = "raised" /\ failed_stage = "download"
    /\ zip_path.chunks > 0
    /\ StatusOf(steps, "fetch") = "error"

\* C9: after a stage failure neither download_and_extract_template nor init
\* returns, the final step is never done, and the ended run has raised.
C9_FailureNeverSwallowed ==
    StageFailed =>
        /\ result # "returned"
        /\ init_result # "returned"
        /\ StatusOf(steps, "final") # "done"
        /\ pc = "done" =>
               /\ result = "raised"
               /\ caller = "init" => init_result = "raised"

C9_Witness ==
    /\ pc = "done" /\ caller = "init" /\ failed_stage = "extract"
    /\ result = "raised" /\ init_result = "raised"
    /\ StatusOf(steps, "final") = "error"

\* C10: the stages are entered in the order resolve, download, materialize,
\* each only after the one before it succeeded, and every run of the pipeline
\* ends with the cleanup phase.
C10_OrderThenCleanup ==
    /\ SelectSeq(trace, LAMBDA x : x # "cleanup") \in
         {<<>>, <<"resolve">>, <<"resolve", "download">>,
          <<"resolve", "download", "materialize">>}
    /\ Len(trace) >= 2 /\ trace[2] = "download" => failed_stage # "resolve"
    /\ Len(trace) >= 3 /\ trace[3] = "materialize" =>
           failed_stage \notin {"resolve", "download"}
    /\ (pc = "done" /\ result # "none") =>
           (Len(trace) > 0 /\ trace[Len(trace)] = "cleanup")

\* C11: only assets whose name contains the pattern of the variant and ends
\* with .zip are candidates; when the feed lists none the run fails with
\* typer.Exit and nothing is downloaded; otherwise the asset chosen is the
\* first candidate in the order of the feed.
C11_FirstMatchingAsset ==
    LET candidate(name) ==
            /\ Contains(name, <<"spec-kit-template-", ai_assistant>>)
            /\ EndsWith(name, <<".zip">>)
        candidates == {i \in DOMAIN feed : candidate(feed[i])}
    IN  /\ cause = "no_asset" =>
              /\ candidates = {}
              /\ asset = <<>>
              /\ ~zip_path.exists
              /\ \A i \in DOMAIN trace : trace[i] # "download"
              /\ pc = "fetch_except" => exc = "Exit"
        /\ candidates # {} =>
              /\ asset # <<>>
              /\ cause = "none"
        /\ asset # <<>> =>
              \E i \in candidates :
                  /\ asset = feed[i]
                  /\ \A j \in candidates : i <= j

C11_Witness ==
    /\ pc = "download" /\ Len(feed) = 2 /\ feed[1] # feed[2]
    /\ Matches(feed[1], ai_assistant) /\ Matches(feed[2], ai_assistant)
    /\ asset = feed[1]

\* C12: a network failure and a non-2xx answer of the release request leave
\* the helper as the same kind of error, the typer.Exit(1) of the network
\* failure, before any download is attempted.
C12_SameFetchError ==
    (pc = "fetch_except" /\ cause \in {"RequestError", "HTTPStatusError"}) =>
        /\ exc = "Exit"
        /\ ~zip_path.exists
        /\ \A i \in DOMAIN trace : trace[i] # "download"

\* the entries an archive places in the target: without the single top-level
\* directory when the archive has one
Placed(namelist) ==
    LET entries == {namelist[i] : i \in DOMAIN namelist}
        tops == {e[1][1] : e \in entries}
        wrapped == /\ Cardinality(tops) = 1
                   /\ \E e \in entries : Len(e[1]) = 1 /\ e[2] = "dir"
    IN  IF wrapped
        THEN {<<Tail(e[1]), e[2]>> : e \in {x \in entries : Len(x[1]) > 1}}
        ELSE entries

\* C13: in both placement modes, after the archive was materialized, the target
\* of an archive whose only top-level entry is the directory X holding a and b
\* contains a and b directly and no X; an archive with several top-level
\* entries, or with a single top-level file, is placed as it is.
C13_Flattened ==
    result = "returned" =>
        LET here == Paths(project_path.tree)
        IN  IF archive = ArchWrapped
            THEN /\ <<"a">> \in here
                 /\ <<"b">> \in here
                 /\ <<"X">> \notin here
            ELSE \A i \in DOMAIN archive : archive[i][1] \in here

\* C14: after a successful merge into an existing target every file of the
\* archive is in the target with the content of the archive, and every file the
\* target had before whose path is not in the archive is unchanged.
C14_MergeOverwrites ==
    (result = "returned" /\ is_current_dir) =>
        /\ \A e \in Placed(archive) :
               e[2] # "dir" => e \in project_path.tree
        /\ \A e \in existing.tree :
               (e[2] # "dir" /\ e[1] \notin Paths(Placed(archive))) =>
                   e \in project_path.tree

\* C15: after any sequence of add, start, complete, error and skip calls no two
\* steps of the tracker have the same key.
C15_UniqueKeys ==
    \A i, j \in DOMAIN steps : steps[i].key = steps[j].key => i = j

C15_Witness ==
    /\ Len(steps) = 2
    /\ last_call.op \in {"add", "complete"}
    /\ last_call.key \in Keys(before)
    /\ ncalls = MaxCalls

\* C16: transitions are not validated: a start, complete, error or skip call
\* returns normally from any status, and the status of every key is the one
\* set by the most recent such call on the key, pending when the key was only
\* added.
C16_LatestStatusWins ==
    /\ last_call.op \in StatusOps => last_call.outcome = "returned"
    /\ \A x \in latest : x[1] \in Keys(steps)
    /\ \A i \in DOMAIN steps :
          IF \E x \in latest : x[1] = steps[i].key
          THEN <<steps[i].key, steps[i].status>> \in latest
          ELSE steps[i].status = "pending"

C16_Witness ==
    /\ last_call.op = "start"
    /\ StatusOf(before, last_call.key) = "done"
    /\ StatusOf(steps, last_call.key) = "running"

\* C17: with an observer attached that raises on every invocation, every add,
\* start, complete, error and skip call returns normally and the steps are
\* those of a tracker without observer that received the same calls.
C17_ObserverFailureContained ==
    (last_call.op \in StatusOps \cup {"add"} /\ Raises(refresh_cb)) =>
        /\ last_call.outcome = "returned"
        /\ steps = plain

C17_Witness ==
    /\ Raises(refresh_cb)
    /\ last_call.op = "error"
    /\ Len(notified) = 1
    /\ steps = plain /\ steps # before

\* C18: with an observer attached, a start, complete, error or skip call and
\* an add call of a new key invoke the observer exactly once, after the
\* change; an add call of an existing key does not invoke it; the observer
\* invoked is the one attached last.
C18_OneRefreshPerChange ==
    (last_call.op \in StatusOps \cup {"add"} /\ refresh_cb # "none") =>
        IF last_call.op = "add" /\ last_call.key \in Keys(before)
        THEN notified = <<>>
        ELSE notified = <<[cb |-> refresh_cb, steps |-> steps]>>

C18_Witness ==
    /\ refresh_cb = "cb_returns"
    /\ last_call.op = "add" /\ last_call.key \in Keys(before)
    /\ notified = <<>>

\* C19: add on a key already registered changes nothing, whatever the status
\* of the step, and raises nothing; add on a new key appends a pending step
\* with an empty detail.
C19_AddIsIdempotent ==
    last_call.op = "add" =>
        /\ last_call.outcome = "returned"
        /\ IF last_call.key \in Keys(before)
           THEN steps = before
           ELSE steps = Append(before, [key |-> last_call.key,
                                        label |-> last_call.arg,
                                        status |-> "pending", detail |-> ""])

C19_Witness ==
    /\ last_call.op = "add"
    /\ \E i \in DOMAIN before :
          /\ before[i].key = last_call.key
          /\ before[i].status = "done"
          /\ before[i].label # last_call.arg
    /\ steps = before

\* C20: start, complete, error or skip on a key that was never added returns
\* normally and registers the key: the new step has the status of the call
\* and the detail passed.
C20_RegisteredOnTheFly ==
    (last_call.op \in StatusOps /\ last_call.key \notin Keys(before)) =>
        /\ last_call.outcome = "returned"
        /\ Len(steps) = Len(before) + 1
        /\ SubSeq(steps, 1, Len(before)) = before
        /\ steps[Len(steps)].key = last_call.key
        /\ steps[Len(steps)].status = StatusFor(last_call.op)
        /\ steps[Len(steps)].detail = last_call.arg

C20_Witness ==
    /\ last_call.op = "skip"
    /\ last_call.key \notin Keys(before)
    /\ last_call.arg = "d1"
    /\ StatusOf(steps, last_call.key) = "skipped"

\* C21: the steps are append-only: for every call the keys before the call are
\* a prefix of the keys after it, the keys are in the order in which they were
\* first named, and render shows one line per step in that order.
C21_AppendOnly ==
    /\ last_call.op \in StatusOps \cup {"add"} =>
          /\ Len(before) <= Len(steps)
          /\ KeySeq(before) = SubSeq(KeySeq(steps), 1, Len(before))
    /\ KeySeq(steps) = referenced
    /\ Len(render(steps)) = Len(steps)
    /\ \A i \in DOMAIN steps : render(steps)[i].label = steps[i].label

C21_Witness ==
    /\ last_call.op = "complete"
    /\ Len(before) = 2
    /\ before[1].key = last_call.key
    /\ before[1].status = "pending"
    /\ KeySeq(steps) = KeySeq(before)

\* C25: a start, complete, error or skip call on a registered step replaces the
\* detail when the detail passed is not empty and keeps it otherwise, changing
\* only the status; the detail of a step is the last non-empty detail written
\* to it.
C25_LastNonEmptyDetail ==
    /\ (last_call.op \in StatusOps /\ last_call.key \in Keys(before)) =>
          /\ Len(steps) = Len(before)
          /\ \A i \in DOMAIN before :
                IF before[i].key = last_call.key
                THEN steps[i] =
                       [before[i] EXCEPT
                          !.status = StatusFor(last_call.op),
                          !.detail = IF last_call.arg # "" THEN last_call.arg
                                     ELSE before[i].detail]
                ELSE steps[i] = before[i]
    /\ \A i \in DOMAIN steps :
          IF \E x \in written : x[1] = steps[i].key
          THEN <<steps[i].key, steps[i].detail>> \in written
          ELSE steps[i].detail = ""

C25_Witness ==
    /\ last_call.op = "complete"
    /\ last_call.arg = ""
    /\ \E i \in DOMAIN before :
          /\ before[i].key = last_call.key
          /\ before[i].detail = "d1"
          /\ steps[i].detail = "d1"
          /\ steps[i].status = "done" /\ before[i].status = "running"

\* C23: in the mode of a new directory the rollback removes the target only
\* when this run created it: a directory that was at that path before the
\* run, so that creating the target failed, is still there with its contents
\* after the run has raised.
C23_PriorTargetKept ==
    (~is_current_dir /\ existing.exists /\ result = "raised"
        /\ failed_stage = "materialize") =>
        /\ ~created
        /\ project_path = existing

\* C24: flattening in the mode of a new directory changes nothing outside the
\* target: a directory <target name>_temp that was there before the run is
\* still there with its own contents when the run has ended, and nothing of
\* it is inside the target.
C24_SiblingUntouched ==
    (~is_current_dir /\ beside.exists /\ pc = "done") =>
        /\ temp_move_dir = beside
        /\ \A e \in beside.tree : e[1] \notin Paths(project_path.tree)

\* the steps download_and_extract_template drives
DrivenKeys ==
    {"fetch", "download", "extract", "zip-list", "extracted-summary", "flatten",
     "cleanup"}

\* C26: when download_and_extract_template has ended, by returning or by
\* raising, none of the steps it drives is running.
C26_NothingLeftRunning ==
    result # "none" =>
        \A i \in DOMAIN steps :
            steps[i].key \in DrivenKeys => steps[i].status # "running"

C26_Witness ==
    /\ result = "raised" /\ has_tracker
    /\ StatusOf(steps, "fetch") = "done"
    /\ StatusOf(steps, "extract") = "error"
    /\ StatusOf(steps, "zip-list") = "done"

\* C27: in the mode of a new directory the target is created only after the
\* archive was downloaded: when the run has failed in the resolve or the
\* download stage the target was never created, and it is not there after
\* the run unless it was there before.
C27_NoTargetBeforeDownload ==
    /\ (~is_current_dir /\ created) =>
          /\ Len(trace) >= 3 /\ trace[3] = "materialize"
          /\ failed_stage \notin {"resolve", "download"}
          /\ zip_path.exists => zip_path.chunks = NumChunks
    /\ (~is_current_dir /\ result = "raised"
          /\ failed_stage \in {"resolve", "download"}) =>
          /\ ~created
          /\ project_path = existing
          /\ ~existing.exists => ~project_path.exists

C27_Witness ==
    /\ ~is_current_dir /\ ~existing.exists
    /\ result = "raised" /\ failed_stage = "download"
    /\ ~project_path.exists

\* C27 as first stated: when the run has failed in the resolve or the download
\* stage the target was never created and is not there after the run.
C27_NoTargetAfterEarlyFailure ==
    (~is_current_dir /\ result = "raised"
        /\ failed_stage \in {"resolve", "download"}) =>
        /\ ~created
        /\ ~project_path.exists

\* C22: the tracker only observes the pipeline: a run of
\* download_and_extract_template on the same inputs in which the calls of the
\* network and the filesystem end the same way goes through the same
\* filesystem states and ends with the same result with a tracker, in any
\* state, as without one: wherever the second run stands, it can take the
\* step the first run took.
C22_TrackerIsPureObserver ==
    (pos > 0 /\ pos < Len(script) /\ Obs = script[pos]) => ENABLED TwinFollow

C22_Witness ==
    /\ pos = Len(script) /\ pos > 10
    /\ has_tracker
    /\ Len(steps) > 2 /\ steps[1] = Step("extract", "Extract", "error", "OSError")
    /\ result = "raised" /\ failed_stage = "materialize"
    /\ script[pos].result = "raised"
    /\ ~is_current_dir /\ ~project_path.exists

====
